---- MODULE Spec2Model ----
(***************************************************************************)
(* Model of the agent orchestration engine of coder-cli: the step          *)
(* (Agent::run_turn / Agent::run_turn_with_streaming), the run             *)
(* (Agent::run_agent_loop), the concurrent tool tasks, the approval gate   *)
(* and the clipping of observations (Spec, FairSpec); the streaming        *)
(* accumulator LlmClient::chat_once (StreamSpec, and ChunkSpec where the    *)
(* transport also cuts its chunks inside a line);                          *)
(* Agent::compact_history called on a session of its own (CompactSpec);    *)
(* the tools insert_in_file called on a file (InsertSpec) and run_shell    *)
(* called on a command line (ShellSpec); and get_user_approval called on   *)
(* a terminal (ApprovalSpec).                                              *)
(*                                                                         *)
(* Strings are sequences of bytes (Rust's str::len and slicing count       *)
(* bytes); a byte is written as a one-character string, a byte of a        *)
(* multi-byte UTF-8 character as its two hex digits.  Option<T> is a       *)
(* sequence of length 0 (None) or 1 (Some).                                *)
(***************************************************************************)
EXTENDS Integers, Sequences, FiniteSets, TLC

\* ------------------------------------------------------------------ bounds
MaxSteps == 2
MaxCalls == 2
MaxToolCalls == 2
MaxRetries == 1
MaxVocabulary == 1

\* ----------------------------------------------------------------- strings
None == <<>>
Some(x) == <<x>>

TRUNCATION_MARKER == <<"E2", "80", "A6", " ", "[", "t", "r", "u", "n", "c", "a", "t", "e", "d", "]">>
STR_USER_DENIED == <<"U", "s", "e", "r", " ", "d", "e", "n", "i", "e", "d", " ", "e", "x", "e", "c", "u", "t", "i", "o", "n">>
STR_ERROR_PREFIX == <<"E", "r", "r", "o", "r", ":", " ">>
STR_UNKNOWN_TOOL == <<"E", "r", "r", "o", "r", ":", " ", "u", "n", "k", "n", "o", "w", "n", " ", "t", "o", "o", "l">>
STR_DIR_EMPTY == <<"D", "i", "r", "e", "c", "t", "o", "r", "y", " ", "i", "s", " ", "e", "m", "p", "t", "y">>
STR_FAILED_PARSE == <<"F", "a", "i", "l", "e", "d", " ", "t", "o", " ", "p", "a", "r", "s", "e", " ", "t", "o", "o", "l", " ", "a", "r", "g", "u", "m", "e", "n", "t", "s", ":", " ">>
STR_PARSE_ERROR == <<"P", "a", "r", "s", "e", " ", "e", "r", "r", "o", "r", ":", " ">>
STR_JOIN_ERROR == <<"J", "o", "i", "n", " ", "e", "r", "r", "o", "r", ":", " ">>
STR_READ_INPUT == <<"F", "a", "i", "l", "e", "d", " ", "t", "o", " ", "r", "e", "a", "d", " ", "i", "n", "p", "u", "t", ":", " ">>

\* Texts supplied by the environment (library error texts, tool outputs, inputs).
SerdeEofText == <<"E", "O", "F", " ", "w", "h", "i", "l", "e", " ", "p", "a", "r", "s", "i", "n", "g">>
PanicText == <<"t", "a", "s", "k", " ", "p", "a", "n", "i", "c", "k", "e", "d">>
IoErrText == <<"s", "t", "d", "i", "n", " ", "c", "l", "o", "s", "e", "d">>
ToolErrText == <<"N", "o", " ", "s", "u", "c", "h", " ", "f", "i", "l", "e">>
ShortOutput == <<"o", "k">>
\* "ab" + U+00E9 (two bytes) + 23 x: a cut after 3 bytes falls inside a character.
LongOutput == <<"a", "b", "C3", "A9", "x", "x", "x", "x", "x", "x", "x", "x", "x", "x", "x", "x", "x", "x", "x", "x", "x", "x", "x", "x", "x", "x", "x">>
SystemPrompt == <<"s", "y", "s">>
UserInput == <<"g", "o">>
PaddedAnswer == <<" ", "h", "i", " ", "\n">>
BlankText == <<" ", "\n">>
ThinkingText == <<"h", "m">>

\* Bytes 0x80..0xBF continue a UTF-8 character.
ContinuationBytes == {"80", "A6", "A9"}
WhiteSpace == {" ", "\n"}

\* str::is_char_boundary
is_char_boundary(s, i) ==
    \/ i = 0
    \/ i = Len(s)
    \/ (i < Len(s) /\ s[i + 1] \notin ContinuationBytes)

\* str::trim
RECURSIVE trim_start(_)
trim_start(s) ==
    IF s # <<>> /\ Head(s) \in WhiteSpace THEN trim_start(Tail(s)) ELSE s

RECURSIVE trim_end(_)
trim_end(s) ==
    IF s # <<>> /\ s[Len(s)] \in WhiteSpace
    THEN trim_end(SubSeq(s, 1, Len(s) - 1))
    ELSE s

trim(s) == trim_end(trim_start(s))

\* The value of an expression whose evaluation panics (slice not on a boundary).
PANIC == <<"PANIC">>

\* utils::clip
clip(s, max) ==
    IF Len(s) <= max THEN s
    ELSE IF ~is_char_boundary(s, max) THEN PANIC
    ELSE SubSeq(s, 1, max) \o TRUNCATION_MARKER

\* ---------------------------------------------------------------- messages
\* types::Message
Message(role, content, tool_calls, tool_call_id) ==
    [role |-> role, content |-> content, tool_calls |-> tool_calls,
     tool_call_id |-> tool_call_id]

\* types::ToolCall (call_type is always "function")
ToolCall(id, name, arguments) ==
    [id |-> id, name |-> name, arguments |-> arguments]

\* Session::add_message
\* A session that puts the new message in front.
add_message_prepending(msgs, m) == <<m>> \o msgs

add_message(msgs, m) == Append(msgs, m)

\* ------------------------------------------------------------------- tools
\* tools/approval.rs
DESTRUCTIVE_TOOLS == {"write_file", "run_shell", "edit_file"}

\* A gate that asks for every tool.
requires_approval_always(tool_name) == TRUE

requires_approval(tool_name) == tool_name \in DESTRUCTIVE_TOOLS

\* The arms of the dispatcher's match on the tool name.
\* A dispatch without the arm of the advisory agent.
DispatchedTools_without_oracle ==
    {"list_dir", "read_file", "write_file", "run_shell", "search_in_files",
     "edit_file", "insert_in_file"}

DispatchedTools ==
    {"list_dir", "read_file", "write_file", "run_shell", "search_in_files",
     "edit_file", "insert_in_file", "ask_orackle"}

\* The names of the schemas ToolRegistry::new declares, in its order.
RegistryTools ==
    {"list_dir", "read_file", "run_shell", "write_file", "search_in_files",
     "edit_file", "insert_in_file", "ask_orackle"}

UnknownToolName == "frobnicate"

\* serde_json::from_str on the raw argument texts the model may send.
WellFormedArgs == "{}"
MalformedArgs == "{"
json_parses(raw) == raw = WellFormedArgs

\* What a tool collaborator can return: Ok(text) or Err(text).
ToolOk(text) == [ok |-> TRUE, text |-> text]
ToolErr(text) == [ok |-> FALSE, text |-> text]

ToolOutcomes(name) ==
    CASE name = "list_dir" -> {ToolOk(<<>>), ToolOk(ShortOutput)}
      [] name \in {"read_file", "run_shell"} ->
            {ToolOk(ShortOutput), ToolOk(LongOutput), ToolErr(ToolErrText)}
      [] OTHER -> {ToolOk(ShortOutput), ToolErr(ToolErrText)}

\* ----------------------------------------------------------------- options
ClipValues == {3, 24}

AgentOptions ==
    [max_steps : 1..MaxSteps, yolo : BOOLEAN, observation_clip : ClipValues]

Entries == {"run_agent_loop", "run_turn_with_streaming"}

\* The turns the model can answer with.
CallIds == <<"call_1", "call_2", "call_3", "call_4">>

\* In one run the model requests at most MaxVocabulary registered tools,
\* and possibly a name that is not registered.
Vocabularies ==
    { v \in SUBSET RegistryTools : Cardinality(v) >= 1 /\ Cardinality(v) <= MaxVocabulary }

Requests(names) ==
    [name : names \cup {UnknownToolName}, arguments : {WellFormedArgs, MalformedArgs}]

RequestLists(names) == UNION { [1..n -> Requests(names)] : n \in 1..MaxCalls }

TextTurns ==
    { Message("assistant", c, None, None) :
        c \in {None, Some(<<>>), Some(BlankText), Some(PaddedAnswer)} }

ToolTurns(names) ==
    { Message("assistant", Some(ThinkingText),
              Some([i \in 1..Len(rs) |-> ToolCall(CallIds[i], rs[i].name, rs[i].arguments)]),
              None) :
        rs \in RequestLists(names) }

\* Results of a step and of a task.
OkNone == [kind |-> "Ok", value |-> None]
OkSome(text) == [kind |-> "Ok", value |-> Some(text)]
Err(e) == [kind |-> "Err", error |-> e]

TaskOk(id, obs) == [kind |-> "Ok", id |-> id, obs |-> obs]
TaskErr(e) == [kind |-> "Err", error |-> e]
TaskPanicked == [kind |-> "Panic"]

\* The status of the transport's response.
SuccessStatus == "200 OK"
ErrorStatus == "401 Unauthorized"

VARIABLES
    opts,           \* AgentOptions of the agent
    vocabulary,     \* the registered tools the model requests in this run
    entry,          \* the entry point the caller uses for this run
    messages,       \* session.messages
    pc,             \* where the caller / run_agent_loop / the step stands
    step,           \* loop variable of run_agent_loop
    tasks,          \* the tool tasks spawned by the current step
    next_task,      \* index of the task the gather loop awaits next
    completed,      \* the tasks of the current step, in the order they finished
    ret,            \* what the last step returned (None while none has)
    run_result,     \* what the run returned: "none", "Ok", "Err"
    limit_reported, \* the step-limit line has been printed
    model_calls,    \* number of model calls made
    sent,           \* the history passed to the last model call
    executed,       \* tool invocations made: {[step, idx, name]}
    approvals,      \* how approval requests ended: {[step, idx, answer]}
    response,       \* chat_once: the response of the transport (status, body lines)
    cursor,         \* chat_once: number of body lines read so far
    chat_pc,        \* chat_once: where the call stands
    accumulated_message, \* chat_once: accumulated_message.content
    tool_calls_map, \* chat_once: index -> ToolCall under construction
    chat_result,    \* chat_once: what the call returned (None while running)
    loaded,         \* the messages the caller's session held before the agent acted
    file,           \* insert_in_file: the content of the file at `path` (None: no such file)
    original,       \* insert_in_file: the content of the file before the call
    insert_args,    \* insert_in_file: the arguments anchor, content, position
    writable,       \* insert_in_file: whether the file can be written
    tool_result,    \* insert_in_file: what the call returned (None while it has not)
    command,        \* run_shell: the command line, as its whitespace-separated words
    spawned,        \* run_shell: the command lines handed to `sh -c`
    shell_result,   \* run_shell: what the call returned (None while it has not)
    stdin,          \* get_user_approval: what the next calls of read_line will meet
    tail_call,      \* get_user_approval: whether the build turned the retry into a loop
    depth,          \* get_user_approval: number of nested retries on the stack
    approval_pc,    \* get_user_approval: where the call stands
    approval_result \* get_user_approval: what the call returned (None while it has not)

stream_vars == <<response, cursor, chat_pc, accumulated_message, tool_calls_map, chat_result>>

agent_vars == <<opts, vocabulary, entry, messages, pc, step, tasks, next_task, completed, ret,
                run_result, limit_reported, model_calls, sent, executed, approvals, loaded>>

file_vars == <<file, original, insert_args, writable, tool_result>>

shell_vars == <<command, spawned, shell_result>>

approval_vars == <<stdin, tail_call, depth, approval_pc, approval_result>>

vars == <<agent_vars, stream_vars, file_vars, shell_vars, approval_vars>>

\* The client before any call of chat_once.
ChatIdle ==
    /\ response = [status |-> SuccessStatus, lines |-> <<>>]
    /\ cursor = 0
    /\ chat_pc = "idle"
    /\ accumulated_message = <<>>
    /\ tool_calls_map = <<>>
    /\ chat_result = None

\* No call of insert_in_file is under way.
FileIdle ==
    /\ file = None
    /\ original = None
    /\ insert_args = [anchor |-> <<>>, content |-> <<>>, position |-> "before"]
    /\ writable = TRUE
    /\ tool_result = None

\* No call of run_shell is under way.
ShellIdle ==
    /\ command = <<>>
    /\ spawned = <<>>
    /\ shell_result = None

\* No call of get_user_approval on a terminal of its own is under way.
ApprovalIdle ==
    /\ stdin = <<>>
    /\ tail_call = FALSE
    /\ depth = 0
    /\ approval_pc = "idle"
    /\ approval_result = None

Init ==
    /\ opts \in AgentOptions
    /\ vocabulary \in Vocabularies
    /\ entry \in Entries
    /\ entry = "run_turn_with_streaming" => opts.max_steps = 1
    /\ messages = <<Message("system", Some(SystemPrompt), None, None)>>
    /\ loaded = messages
    /\ pc = "idle"
    /\ step = 0
    /\ tasks = <<>>
    /\ next_task = 1
    /\ completed = <<>>
    /\ ret = None
    /\ run_result = "none"
    /\ limit_reported = FALSE
    /\ model_calls = 0
    /\ sent = <<>>
    /\ executed = {}
    /\ approvals = {}
    /\ ChatIdle
    /\ FileIdle
    /\ ShellIdle
    /\ ApprovalIdle

\* ------------------------------------------------------------ the history
\* Agent::compact_history, on one message and on the history
needs_compaction(m, budget) ==
    m.role = "tool" /\ m.content # None /\ Len(m.content[1]) > budget

\* `&c[..observation_clip]` panics when the cut is inside a character.
compact_message_panics(m, budget) ==
    needs_compaction(m, budget) /\ ~is_char_boundary(m.content[1], budget)

\* A compaction that appends the marker to the whole content.
compact_message_appending_marker(m, budget) ==
    IF needs_compaction(m, budget)
    THEN [m EXCEPT !.content = Some(m.content[1] \o TRUNCATION_MARKER)]
    ELSE m

\* A compaction that cuts the content and leaves out the marker.
compact_message_without_marker(m, budget) ==
    IF needs_compaction(m, budget)
    THEN [m EXCEPT !.content = Some(SubSeq(m.content[1], 1, budget))]
    ELSE m

compact_message(m, budget) ==
    IF needs_compaction(m, budget)
    THEN [m EXCEPT !.content = Some(SubSeq(m.content[1], 1, budget) \o TRUNCATION_MARKER)]
    ELSE m

compact_panics(msgs, budget) ==
    \E i \in 1..Len(msgs) : compact_message_panics(msgs[i], budget)

\* A step that sends the history as it is.
compact_history_skipped(msgs, budget) == msgs

compact_history(msgs, budget) ==
    [i \in 1..Len(msgs) |-> compact_message(msgs[i], budget)]

\* ----------------------------------------------------------------- the run
\* A loop that runs one step too many.
StepBudget_off_by_one == (IF entry = "run_agent_loop" THEN opts.max_steps ELSE 1) + 1

\* The number of steps the caller asks for: run_agent_loop iterates
\* 0..max_steps; a caller of run_turn_with_streaming asks for one step.
StepBudget == IF entry = "run_agent_loop" THEN opts.max_steps ELSE 1

\* Seeding of the history with the user's input (run_agent_loop, or the
\* caller of run_turn_with_streaming), before the first step.
StartRun ==
    /\ pc = "idle"
    /\ messages' = add_message(messages, Message("user", Some(UserInput), None, None))
    /\ pc' = "loop"
    /\ UNCHANGED <<stream_vars, file_vars, shell_vars, approval_vars, loaded, opts, vocabulary, entry, step, tasks, next_task, completed, ret, run_result,
                   limit_reported, model_calls, sent, executed, approvals>>

\* Start of a step: compaction, then the model call is issued.
BeginStep ==
    /\ pc = "loop"
    /\ step < StepBudget
    /\ IF compact_panics(messages, opts.observation_clip)
       THEN /\ pc' = "panicked"
            /\ UNCHANGED <<messages, model_calls, sent>>
       ELSE /\ messages' = compact_history(messages, opts.observation_clip)
            /\ model_calls' = model_calls + 1
            /\ sent' = messages'
            /\ pc' = "llm"
    /\ UNCHANGED <<stream_vars, file_vars, shell_vars, approval_vars, loaded, opts, vocabulary, entry, step, tasks, next_task, completed, ret, run_result,
                   limit_reported, executed, approvals>>

\* The loop of run_agent_loop is exhausted: the run returns Ok(()).
LoopExit ==
    /\ pc = "loop"
    /\ step >= StepBudget
    /\ pc' = "returned"
    /\ run_result' = "Ok"
    /\ UNCHANGED <<stream_vars, file_vars, shell_vars, approval_vars, loaded, opts, vocabulary, entry, messages, step, tasks, next_task, completed, ret,
                   limit_reported, model_calls, sent, executed, approvals>>

\* What the caller does with the value r a step returns.
StepReturns(r) ==
    /\ ret' = Some(r)
    /\ IF r.kind = "Err"
       THEN /\ pc' = "returned"
            /\ run_result' = "Err"
            /\ UNCHANGED <<step, limit_reported>>
       ELSE IF r.value # None
       THEN /\ pc' = "returned"
            /\ run_result' = "Ok"
            /\ UNCHANGED <<step, limit_reported>>
       ELSE /\ pc' = "loop"
            /\ step' = step + 1
            /\ limit_reported' =
                  (entry = "run_agent_loop" /\ step + 1 = opts.max_steps)
            /\ UNCHANGED run_result

\* ---------------------------------------------------------------- the step
RECURSIVE ToolCallsIn(_)
ToolCallsIn(msgs) ==
    IF msgs = <<>> THEN 0
    ELSE (IF Head(msgs).tool_calls = None THEN 0 ELSE Len(Head(msgs).tool_calls[1]))
         + ToolCallsIn(Tail(msgs))

\* The turns the model may answer with in the current state (the total
\* number of tool calls of a run is capped).
PossibleTurns ==
    TextTurns \cup
    { t \in ToolTurns(vocabulary) : ToolCallsIn(messages) + Len(t.tool_calls[1]) <= MaxToolCalls }

\* A failed model call that leaves an error message in the history.
LlmFail_records_error ==
    /\ pc = "llm"
    /\ \E e \in {"Elapsed", "Transport"} : StepReturns(Err(e))
    /\ messages' = add_message(messages, Message("tool", Some(STR_ERROR_PREFIX), None, None))
    /\ UNCHANGED <<stream_vars, file_vars, shell_vars, approval_vars, loaded, opts, vocabulary, entry, tasks, next_task, completed, model_calls, sent,
                   executed, approvals>>

\* The model call times out under step_timeout or the transport fails:
\* `.await??` returns the error from the step, and the run returns it.
LlmFail ==
    /\ pc = "llm"
    /\ \E e \in {"Elapsed", "Transport"} : StepReturns(Err(e))
    /\ UNCHANGED <<stream_vars, file_vars, shell_vars, approval_vars, loaded, opts, vocabulary, entry, messages, tasks, next_task, completed, model_calls, sent,
                   executed, approvals>>

HasMalformedArgs(turn) ==
    /\ turn.tool_calls # None
    /\ \E i \in 1..Len(turn.tool_calls[1]) : ~json_parses(turn.tool_calls[1][i].arguments)

\* The tasks a step spawns, one per tool call, in request order.
spawn_tasks(turn) ==
    [i \in 1..Len(turn.tool_calls[1]) |->
        [id |-> turn.tool_calls[1][i].id,
         name |-> turn.tool_calls[1][i].name,
         args_raw |-> turn.tool_calls[1][i].arguments,
         pc |-> "spawned", retries |-> 0, result |-> None]]

\* A final answer returned as received, without trimming.
final_text_untrimmed(content) ==
    IF content # None /\ trim(content[1]) # <<>>
    THEN OkSome(content[1])
    ELSE OkNone

\* A final answer returned without the emptiness test.
final_text_unchecked(content) ==
    IF content # None THEN OkSome(trim(content[1])) ELSE OkNone

\* run_turn: what is returned when the turn has no tool calls.
final_text(content) ==
    IF content # None /\ trim(content[1]) # <<>>
    THEN OkSome(trim(content[1]))
    ELSE OkNone

\* run_turn_with_streaming: content.filter(|c| !c.trim().is_empty())
final_text_streaming(content) ==
    IF content # None /\ trim(content[1]) # <<>>
    THEN OkSome(content[1])
    ELSE OkNone

\* run_turn, from the model's answer to the spawning of the tool tasks.
RunTurnRespond ==
    /\ pc = "llm"
    /\ entry = "run_agent_loop"
    /\ \E turn \in PossibleTurns :
        /\ messages' = add_message(messages, turn)
        /\ IF HasMalformedArgs(turn)
           THEN /\ StepReturns(Err("Tool argument parsing failed"))
                /\ UNCHANGED <<tasks, next_task, completed>>
           ELSE IF turn.tool_calls = None
           THEN /\ StepReturns(final_text(turn.content))
                /\ UNCHANGED <<tasks, next_task, completed>>
           ELSE /\ tasks' = spawn_tasks(turn)
                /\ next_task' = 1
                /\ completed' = <<>>
                /\ pc' = "gather"
                /\ UNCHANGED <<step, ret, run_result, limit_reported>>
    /\ UNCHANGED <<stream_vars, file_vars, shell_vars, approval_vars, loaded, opts, vocabulary, entry, model_calls, sent, executed, approvals>>

\* run_turn_with_streaming, from the model's answer to the spawning.
StreamingTurnRespond ==
    /\ pc = "llm"
    /\ entry = "run_turn_with_streaming"
    /\ \E turn \in PossibleTurns :
        /\ messages' = add_message(messages, turn)
        /\ IF HasMalformedArgs(turn)
           THEN /\ StepReturns(Err("Parse error"))
                /\ UNCHANGED <<tasks, next_task, completed>>
           ELSE IF turn.tool_calls = None
           THEN /\ StepReturns(final_text_streaming(turn.content))
                /\ UNCHANGED <<tasks, next_task, completed>>
           ELSE /\ tasks' = spawn_tasks(turn)
                /\ next_task' = 1
                /\ completed' = <<>>
                /\ pc' = "gather"
                /\ UNCHANGED <<step, ret, run_result, limit_reported>>
    /\ UNCHANGED <<stream_vars, file_vars, shell_vars, approval_vars, loaded, opts, vocabulary, entry, model_calls, sent, executed, approvals>>

\* --------------------------------------------------------- the tool tasks
\* The lines an approval request can read, and a failed read.
InputLines == {"y", "n", "x"}
ReadOutcomes == InputLines \cup {"ioerr"}

\* A task of run_turn asks for approval: `!yolo && requires_approval(&name)`.
NeedsApproval(t) == ~opts.yolo /\ requires_approval(t.name)

\* A gate that lets one task at a time ask for approval.
TaskRequestApproval_serialized(i) ==
    /\ pc = "gather"
    /\ entry = "run_agent_loop"
    /\ tasks[i].pc = "spawned"
    /\ NeedsApproval(tasks[i])
    /\ \A j \in 1..Len(tasks) : tasks[j].pc # "approval"
    /\ tasks' = [tasks EXCEPT ![i].pc = "approval"]
    /\ UNCHANGED <<stream_vars, file_vars, shell_vars, approval_vars, loaded, opts, vocabulary, entry, messages, pc, step, next_task, completed, ret, run_result,
                   limit_reported, model_calls, sent, executed, approvals>>

\* The task prints the approval prompt and waits for the answer.
TaskRequestApproval(i) ==
    /\ pc = "gather"
    /\ entry = "run_agent_loop"
    /\ tasks[i].pc = "spawned"
    /\ NeedsApproval(tasks[i])
    /\ tasks' = [tasks EXCEPT ![i].pc = "approval"]
    /\ UNCHANGED <<stream_vars, file_vars, shell_vars, approval_vars, loaded, opts, vocabulary, entry, messages, pc, step, next_task, completed, ret, run_result,
                   limit_reported, model_calls, sent, executed, approvals>>

\* get_user_approval on the line read: y approves, n denies, a failed read
\* is an error, anything else prints a notice and asks again.
get_user_approval(r) ==
    CASE r = "y" -> "Ok(true)"
      [] r = "n" -> "Ok(false)"
      [] r = "ioerr" -> "Err"
      [] OTHER -> "retry"

\* A gate that lets a denied call through.
after_approval_denial_ignored(t, verdict) ==
    CASE verdict \in {"Ok(true)", "Ok(false)"} -> [t EXCEPT !.pc = "ready"]
      [] verdict = "Err" ->
            [t EXCEPT !.pc = "finished",
                      !.result = Some(TaskOk(t.id, STR_ERROR_PREFIX \o STR_READ_INPUT \o IoErrText))]
      [] OTHER -> [t EXCEPT !.retries = @ + 1]

\* The task after its approval request ended with `verdict`.
after_approval(t, verdict) ==
    CASE verdict = "Ok(true)" -> [t EXCEPT !.pc = "ready"]
      [] verdict = "Ok(false)" ->
            [t EXCEPT !.pc = "finished", !.result = Some(TaskOk(t.id, STR_USER_DENIED))]
      [] verdict = "Err" ->
            [t EXCEPT !.pc = "finished",
                      !.result = Some(TaskOk(t.id, STR_ERROR_PREFIX \o STR_READ_INPUT \o IoErrText))]
      [] OTHER -> [t EXCEPT !.retries = @ + 1]

\* The waiting task reads one line from the terminal.
TaskApproval(i) ==
    /\ pc = "gather"
    /\ tasks[i].pc = "approval"
    /\ \E r \in ReadOutcomes :
        LET verdict == get_user_approval(r)
            t == after_approval(tasks[i], verdict) IN
        /\ verdict = "retry" => tasks[i].retries < MaxRetries
        /\ approvals' = IF verdict = "retry" THEN approvals
                         ELSE approvals \cup {[step |-> model_calls, idx |-> i, answer |-> verdict]}
        /\ tasks' = [tasks EXCEPT ![i] = t]
        /\ completed' = IF t.pc = "finished" THEN Append(completed, i) ELSE completed
    /\ UNCHANGED <<stream_vars, file_vars, shell_vars, approval_vars, loaded, opts, vocabulary, entry, messages, pc, step, next_task, ret, run_result,
                   limit_reported, model_calls, sent, executed>>

\* run_turn's dispatch: the observation of a call, given what the tool returns.
dispatch(name, outcome) ==
    CASE name = "list_dir" ->
            IF outcome.text = <<>> THEN STR_DIR_EMPTY ELSE outcome.text
      [] name \in DispatchedTools \ {"list_dir"} ->
            IF outcome.ok THEN outcome.text ELSE STR_ERROR_PREFIX \o outcome.text
      [] OTHER -> STR_UNKNOWN_TOOL

\* The body of a task of run_turn after the approval gate.
run_task(t, outcome) ==
    IF ~json_parses(t.args_raw)
    THEN TaskOk(t.id, STR_FAILED_PARSE \o SerdeEofText)
    ELSE TaskOk(t.id, dispatch(t.name, outcome))

\* run_turn_with_streaming's task: no approval gate, errors leave with `?`.
run_task_streaming(t, outcome) ==
    IF ~json_parses(t.args_raw)
    THEN TaskErr(STR_PARSE_ERROR \o SerdeEofText)
    ELSE CASE t.name \in DispatchedTools ->
                IF outcome.ok THEN TaskOk(t.id, outcome.text) ELSE TaskErr(outcome.text)
           [] OTHER -> TaskOk(t.id, STR_UNKNOWN_TOOL)

\* Whether the task's body reaches a tool collaborator.
InvokesTool(t) == json_parses(t.args_raw) /\ t.name \in DispatchedTools

OutcomesFor(t) ==
    IF InvokesTool(t) THEN ToolOutcomes(t.name) ELSE {ToolOk(<<>>)}

Invocation(i) == [step |-> model_calls, idx |-> i, name |-> tasks[i].name]

\* A task of run_turn may run its body once it is past the approval gate.
PastGate(t) == t.pc = "ready" \/ (t.pc = "spawned" /\ ~NeedsApproval(t))

TaskExecute(i) ==
    /\ pc = "gather"
    /\ entry = "run_agent_loop"
    /\ PastGate(tasks[i])
    /\ \E o \in OutcomesFor(tasks[i]) :
        tasks' = [tasks EXCEPT ![i].pc = "finished",
                               ![i].result = Some(run_task(tasks[i], o))]
    /\ completed' = Append(completed, i)
    /\ executed' = IF InvokesTool(tasks[i]) THEN executed \cup {Invocation(i)} ELSE executed
    /\ UNCHANGED <<stream_vars, file_vars, shell_vars, approval_vars, loaded, opts, vocabulary, entry, messages, pc, step, next_task, ret, run_result,
                   limit_reported, model_calls, sent, approvals>>

StreamingTaskExecute(i) ==
    /\ pc = "gather"
    /\ entry = "run_turn_with_streaming"
    /\ tasks[i].pc = "spawned"
    /\ \E o \in OutcomesFor(tasks[i]) :
        tasks' = [tasks EXCEPT ![i].pc = "finished",
                               ![i].result = Some(run_task_streaming(tasks[i], o))]
    /\ completed' = Append(completed, i)
    /\ executed' = IF InvokesTool(tasks[i]) THEN executed \cup {Invocation(i)} ELSE executed
    /\ UNCHANGED <<stream_vars, file_vars, shell_vars, approval_vars, loaded, opts, vocabulary, entry, messages, pc, step, next_task, ret, run_result,
                   limit_reported, model_calls, sent, approvals>>

\* The tool collaborator panics inside the task: the task's JoinHandle
\* yields a JoinError.
TaskPanic(i) ==
    /\ pc = "gather"
    /\ IF entry = "run_agent_loop" THEN PastGate(tasks[i]) ELSE tasks[i].pc = "spawned"
    /\ InvokesTool(tasks[i])
    /\ tasks' = [tasks EXCEPT ![i].pc = "finished", ![i].result = Some(TaskPanicked)]
    /\ completed' = Append(completed, i)
    /\ executed' = executed \cup {Invocation(i)}
    /\ UNCHANGED <<stream_vars, file_vars, shell_vars, approval_vars, loaded, opts, vocabulary, entry, messages, pc, step, next_task, ret, run_result,
                   limit_reported, model_calls, sent, approvals>>

\* ---------------------------------------------------------------- gather
\* `clip(&observation, ...)` in the gather loop panics.
gather_panics(result, budget) ==
    result.kind = "Ok" /\ clip(result.obs, budget) = PANIC

\* The tool message the gather loop builds from a task's result.
gather_message(result, budget) ==
    CASE result.kind = "Ok" ->
            Message("tool", Some(clip(result.obs, budget)), None, Some(result.id))
      [] result.kind = "Err" ->
            Message("tool", Some(STR_ERROR_PREFIX \o result.error), None, None)
      [] OTHER ->
            Message("tool", Some(STR_JOIN_ERROR \o PanicText), None, None)

\* A gather loop that takes the tasks as they finish.
awaited_completion_order ==
    IF next_task <= Len(completed) THEN completed[next_task] ELSE next_task

\* The task the gather loop awaits: tasks are awaited in spawn order.
awaited == next_task

\* `for t in tasks { match t.await {...} }`: one iteration, and the return
\* of Ok(None) after the last one.
Gather ==
    /\ pc = "gather"
    /\ awaited <= Len(tasks)
    /\ tasks[awaited].pc = "finished"
    /\ LET r == tasks[awaited].result[1]
           m == gather_message(r, opts.observation_clip) IN
        IF gather_panics(r, opts.observation_clip)
        THEN /\ pc' = "panicked"
             /\ UNCHANGED <<messages, step, next_task, ret, run_result, limit_reported>>
        ELSE /\ messages' = add_message(messages, m)
             /\ next_task' = next_task + 1
             /\ IF next_task = Len(tasks)
                THEN StepReturns(OkNone)
                ELSE UNCHANGED <<pc, step, ret, run_result, limit_reported>>
    /\ UNCHANGED <<stream_vars, file_vars, shell_vars, approval_vars, loaded, opts, vocabulary, entry, tasks, completed, model_calls, sent, executed,
                   approvals>>

Next ==
    \/ StartRun
    \/ BeginStep
    \/ LoopExit
    \/ LlmFail
    \/ RunTurnRespond
    \/ StreamingTurnRespond
    \/ \E i \in 1..Len(tasks) : TaskRequestApproval(i)
    \/ \E i \in 1..Len(tasks) : TaskApproval(i)
    \/ \E i \in 1..Len(tasks) : TaskExecute(i)
    \/ \E i \in 1..Len(tasks) : StreamingTaskExecute(i)
    \/ \E i \in 1..Len(tasks) : TaskPanic(i)
    \/ Gather

Spec == Init /\ [][Next]_vars

\* The runtime schedules every spawned task and every pending call returns.
FairSpec == Spec /\ WF_vars(Next)

\* ------------------------------------------------- LlmClient::chat_once
\* The response body is read as lines (`text.lines()`); a line is
\*   noise      a line that does not start with "data: "
\*   empty      "data: " with an empty payload
\*   done       "data: [DONE]"
\*   malformed  "data: " followed by text that is not JSON
\*   json       "data: " followed by a JSON fragment, of which chat_once
\*              reads choices[0].delta.content, choices[0].delta.tool_calls
\*              and choices[0].finish_reason.
MaxLines == 3

Line(kind, content, tool_call_deltas, finish_reason) ==
    [kind |-> kind, content |-> content, tool_calls |-> tool_call_deltas,
     finish_reason |-> finish_reason]

NoiseLine == Line("noise", None, <<>>, None)
EmptyPayload == Line("empty", None, <<>>, None)
DoneMarker == Line("done", None, <<>>, None)
MalformedPayload == Line("malformed", None, <<>>, None)

\* One element of delta.tool_calls; id, name and arguments may be absent.
TcDelta(index, id, name, arguments) ==
    [index |-> index, id |-> id, name |-> name, arguments |-> arguments]

ContentDelta(text) == Line("json", Some(text), <<>>, None)
ToolDelta(d) == Line("json", None, <<d>>, None)
FinishLine(status, content) == Line("json", content, <<>>, Some(status))

\* The fragments a provider can send.
ContentPieces == {<<"h">>, <<"i">>, <<"h", "i">>}
ArgumentPieces == {<<"{">>, <<"}">>, <<"{", "}">>}
StreamIndexes == {0, 1}
CallIdOf(index) == IF index = 0 THEN "call_a" ELSE "call_b"
StreamToolName == "read_file"
FinishStatuses == {"stop", "tool_calls", "length"}

\* id and name of a tool-call delta: absent, empty strings, or set.
Headers(index) ==
    {[id |-> None, name |-> None],
     [id |-> Some(""), name |-> Some("")],
     [id |-> Some(CallIdOf(index)), name |-> Some(StreamToolName)]}

ToolDeltas ==
    { TcDelta(0, h.id, h.name, Some(a)) : h \in Headers(0), a \in ArgumentPieces }
    \cup { TcDelta(1, Some(CallIdOf(1)), Some(StreamToolName), Some(<<"{", "}">>)) }

StreamLines ==
    {NoiseLine, EmptyPayload, DoneMarker, MalformedPayload}
    \cup { ContentDelta(c) : c \in ContentPieces }
    \cup { ToolDelta(d) : d \in ToolDeltas }
    \cup { FinishLine(f, None) : f \in FinishStatuses }
    \cup { FinishLine(f, Some(<<"i">>)) : f \in {"stop", "length"} }

Bodies == UNION { [1..n -> StreamLines] : n \in 0..MaxLines }

\* A success response streams a body; a non-success response carries an
\* error body, which is not a "data: " line.
Responses ==
    { [status |-> SuccessStatus, lines |-> b] : b \in Bodies }
    \cup { [status |-> ErrorStatus, lines |-> <<NoiseLine>>] }

ChatOk(turn) == [kind |-> "Ok", turn |-> turn]

\* A merge that replaces the arguments by the last fragment.
merge_tool_delta_replacing_arguments(map, d) ==
    LET slot  == IF d.index \in DOMAIN map THEN map[d.index] ELSE ToolCall("", "", <<>>)
        merged == ToolCall(IF d.id # None THEN d.id[1] ELSE slot.id,
                           IF d.name # None THEN d.name[1] ELSE slot.name,
                           IF d.arguments # None THEN d.arguments[1] ELSE slot.arguments)
    IN  [i \in (DOMAIN map) \cup {d.index} |-> IF i = d.index THEN merged ELSE map[i]]

\* tool_calls_map.slot(index).or_insert_with(..), then id and name are
\* assigned and arguments appended, each when the delta holds a string.
merge_tool_delta(map, d) ==
    LET slot  == IF d.index \in DOMAIN map THEN map[d.index] ELSE ToolCall("", "", <<>>)
        merged == ToolCall(IF d.id # None THEN d.id[1] ELSE slot.id,
                           IF d.name # None THEN d.name[1] ELSE slot.name,
                           IF d.arguments # None THEN slot.arguments \o d.arguments[1]
                                                 ELSE slot.arguments)
    IN  [i \in (DOMAIN map) \cup {d.index} |-> IF i = d.index THEN merged ELSE map[i]]

RECURSIVE merge_tool_deltas(_, _)
merge_tool_deltas(map, ds) ==
    IF ds = <<>> THEN map
    ELSE merge_tool_deltas(merge_tool_delta(map, Head(ds)), Tail(ds))

\* The state of the accumulation: content, map, the stop flag, and the
\* number of lines looked at.
Accumulation(content, map) ==
    [content |-> content, map |-> map, should_stop |-> FALSE, consumed |-> 0]

\* Whether a parsed fragment's finish_reason ends the accumulation.
finish_stops(line) ==
    line.finish_reason # None /\ line.finish_reason[1] \in {"stop", "tool_calls"}

\* The body of `for line in text.lines()` on one line.
process_line(acc, line) ==
    LET seen == [acc EXCEPT !.consumed = @ + 1] IN
    CASE line.kind \in {"noise", "malformed"} -> seen
      [] line.kind \in {"done", "empty"} -> [seen EXCEPT !.should_stop = TRUE]
      [] OTHER ->
            IF finish_stops(line)
            THEN [seen EXCEPT !.should_stop = TRUE]
            ELSE [seen EXCEPT
                    !.content = IF line.content # None THEN @ \o line.content[1] ELSE @,
                    !.map = merge_tool_deltas(@, line.tool_calls)]

\* The lines of one chunk, up to the `break`.
RECURSIVE process_lines(_, _)
process_lines(acc, lines) ==
    IF lines = <<>> \/ acc.should_stop THEN acc
    ELSE process_lines(process_line(acc, Head(lines)), Tail(lines))

\* The entries of the map, highest index first.
RECURSIVE calls_descending(_)
calls_descending(map) ==
    IF DOMAIN map = {} THEN <<>>
    ELSE LET m == CHOOSE i \in DOMAIN map : \A j \in DOMAIN map : j <= i IN
         <<map[m]>> \o calls_descending([i \in (DOMAIN map) \ {m} |-> map[i]])

\* calls.sort_by_key(|(idx, _)| *idx), then the values in that order.
RECURSIVE sorted_calls(_)
sorted_calls(map) ==
    IF DOMAIN map = {} THEN <<>>
    ELSE LET m == CHOOSE i \in DOMAIN map : \A j \in DOMAIN map : i <= j IN
         <<map[m]>> \o sorted_calls([i \in (DOMAIN map) \ {m} |-> map[i]])

\* The Message chat_once returns from what it accumulated.
reconstruct(content, map) ==
    Message("assistant", Some(content),
            IF DOMAIN map = {} THEN None ELSE Some(sorted_calls(map)), None)

\* chat_once on a success response whose whole body arrives without a
\* read error.
chat_once(lines) ==
    LET acc == process_lines(Accumulation(<<>>, <<>>), lines) IN
    reconstruct(acc.content, acc.map)

\* `.send().await?` fails: no connection.
ChatConnectFail ==
    /\ chat_pc = "sending"
    /\ chat_pc' = "returned"
    /\ chat_result' = Some(Err("Connect"))
    /\ UNCHANGED <<agent_vars, file_vars, shell_vars, approval_vars, response, cursor, accumulated_message, tool_calls_map>>

\* `.send().await?` yields the response, whatever its status; the
\* accumulators are initialised.
ChatSend ==
    /\ chat_pc = "sending"
    /\ chat_pc' = "streaming"
    /\ accumulated_message' = <<>>
    /\ tool_calls_map' = <<>>
    /\ UNCHANGED <<agent_vars, file_vars, shell_vars, approval_vars, response, cursor, chat_result>>

\* One iteration of `while let Some(chunk) = stream.next().await`: the
\* transport delivers the next n lines of the body as one chunk; on
\* should_stop the loop is left and the Message returned.
ReadChunk ==
    /\ chat_pc = "streaming"
    /\ cursor < Len(response.lines)
    /\ \E n \in 1..(Len(response.lines) - cursor) :
        LET chunk == SubSeq(response.lines, cursor + 1, cursor + n)
            acc == process_lines(Accumulation(accumulated_message, tool_calls_map), chunk)
        IN  /\ cursor' = cursor + acc.consumed
            /\ accumulated_message' = acc.content
            /\ tool_calls_map' = acc.map
            /\ IF acc.should_stop
               THEN /\ chat_pc' = "returned"
                    /\ chat_result' = Some(ChatOk(reconstruct(acc.content, acc.map)))
               ELSE UNCHANGED <<chat_pc, chat_result>>
    /\ UNCHANGED <<agent_vars, file_vars, shell_vars, approval_vars, response>>

\* `let bytes = chunk?`: reading the stream fails.
ReadChunkError ==
    /\ chat_pc = "streaming"
    /\ chat_pc' = "returned"
    /\ chat_result' = Some(Err("Transport"))
    /\ UNCHANGED <<agent_vars, file_vars, shell_vars, approval_vars, response, cursor, accumulated_message, tool_calls_map>>

\* The stream is exhausted: the loop ends and the Message is returned.
StreamExhausted ==
    /\ chat_pc = "streaming"
    /\ cursor = Len(response.lines)
    /\ chat_pc' = "returned"
    /\ chat_result' = Some(ChatOk(reconstruct(accumulated_message, tool_calls_map)))
    /\ UNCHANGED <<agent_vars, file_vars, shell_vars, approval_vars, response, cursor, accumulated_message, tool_calls_map>>

\* A call of chat_once on any response of the transport; the agent is idle.
StreamInit ==
    /\ opts = [max_steps |-> 1, yolo |-> TRUE, observation_clip |-> 24]
    /\ vocabulary = {"read_file"}
    /\ entry = "run_agent_loop"
    /\ messages = <<Message("system", Some(SystemPrompt), None, None)>>
    /\ loaded = messages
    /\ pc = "idle"
    /\ step = 0
    /\ tasks = <<>>
    /\ next_task = 1
    /\ completed = <<>>
    /\ ret = None
    /\ run_result = "none"
    /\ limit_reported = FALSE
    /\ model_calls = 0
    /\ sent = <<>>
    /\ executed = {}
    /\ approvals = {}
    /\ response \in Responses
    /\ cursor = 0
    /\ chat_pc = "sending"
    /\ accumulated_message = <<>>
    /\ tool_calls_map = <<>>
    /\ chat_result = None
    /\ FileIdle
    /\ ShellIdle
    /\ ApprovalIdle

StreamNext ==
    \/ ChatConnectFail
    \/ ChatSend
    \/ ReadChunk
    \/ ReadChunkError
    \/ StreamExhausted

StreamSpec == StreamInit /\ [][StreamNext]_vars

\* A transport that also ends a chunk inside a line.  Where a line
\* "data: <payload>" can be cut: inside the prefix "data: ", right after
\* it, or inside the payload.
CutPoints == {"prefix", "after_prefix", "payload"}

\* What `text.lines()` makes of the first piece of a cut line: a piece of
\* the prefix does not start with "data: "; the bare prefix has an empty
\* payload; a piece of a payload is not JSON, unless the payload is blank.
cut_head(line, at) ==
    CASE line.kind = "noise" \/ at = "prefix" -> NoiseLine
      [] line.kind = "empty" \/ at = "after_prefix" -> EmptyPayload
      [] OTHER -> MalformedPayload

\* One iteration of the loop on a chunk that ends inside a line: the chunk
\* holds n - 1 whole lines and the first piece of the n-th.  The rest of
\* that line opens the next chunk, where it does not start with "data: "
\* and is skipped.
ReadCutChunk ==
    /\ chat_pc = "streaming"
    /\ cursor < Len(response.lines)
    /\ \E n \in 1..(Len(response.lines) - cursor), at \in CutPoints :
        LET chunk == SubSeq(response.lines, cursor + 1, cursor + n - 1)
                     \o <<cut_head(response.lines[cursor + n], at)>>
            acc == process_lines(Accumulation(accumulated_message, tool_calls_map), chunk)
        IN  /\ cursor' = cursor + acc.consumed
            /\ accumulated_message' = acc.content
            /\ tool_calls_map' = acc.map
            /\ IF acc.should_stop
               THEN /\ chat_pc' = "returned"
                    /\ chat_result' = Some(ChatOk(reconstruct(acc.content, acc.map)))
               ELSE UNCHANGED <<chat_pc, chat_result>>
    /\ UNCHANGED <<agent_vars, file_vars, shell_vars, approval_vars, response>>

ChunkNext ==
    \/ StreamNext
    \/ ReadCutChunk

ChunkSpec == StreamInit /\ [][ChunkNext]_vars

\* ---------------------------------- Agent::compact_history, called alone
\* The caller builds a session and calls agent.compact_history on it.
MaxHistory == 2
MaxCompactions == 2

\* "abc": as long as the smaller observation_clip.
ExactOutput == <<"a", "b", "c">>

\* Observations of tools, and what clip makes of them.
ObservationTexts == {ShortOutput, ExactOutput, STR_USER_DENIED, LongOutput}
ClippedTexts == { clip(t, b) : t \in ObservationTexts, b \in ClipValues } \ {PANIC}

\* The messages a session can hold.
HistoryMessages ==
    { Message("system", Some(SystemPrompt), None, None),
      Message("user", Some(LongOutput), None, None),
      Message("assistant", None, Some(<<ToolCall(CallIds[1], "read_file", WellFormedArgs)>>), None),
      Message("tool", None, None, None) }
    \cup { Message("tool", Some(c), None, id) :
             c \in ObservationTexts \cup ClippedTexts,
             id \in {None, Some(CallIds[1])} }

Histories == UNION { [1..n -> HistoryMessages] : n \in 1..MaxHistory }

CompactInit ==
    /\ opts \in [max_steps : {1}, yolo : {TRUE}, observation_clip : ClipValues]
    /\ vocabulary = {"read_file"}
    /\ entry = "compact_history"
    /\ messages \in Histories
    /\ loaded = messages
    /\ pc = "session"
    /\ step = 0
    /\ tasks = <<>>
    /\ next_task = 1
    /\ completed = <<>>
    /\ ret = None
    /\ run_result = "none"
    /\ limit_reported = FALSE
    /\ model_calls = 0
    /\ sent = <<>>
    /\ executed = {}
    /\ approvals = {}
    /\ ChatIdle
    /\ FileIdle
    /\ ShellIdle
    /\ ApprovalIdle

\* agent.compact_history(&mut session); the caller may call it again on
\* the compacted session.  `step` counts the calls that returned.
CompactHistory ==
    /\ pc \in {"session", "compacted"}
    /\ step < MaxCompactions
    /\ IF compact_panics(messages, opts.observation_clip)
       THEN /\ pc' = "panicked"
            /\ UNCHANGED <<messages, step>>
       ELSE /\ pc' = "compacted"
            /\ step' = step + 1
            /\ messages' = compact_history(messages, opts.observation_clip)
    /\ UNCHANGED <<stream_vars, file_vars, shell_vars, approval_vars, loaded, opts, vocabulary, entry, tasks, next_task,
                   completed, ret, run_result, limit_reported, model_calls, sent, executed,
                   approvals>>

CompactNext == CompactHistory

CompactSpec == CompactInit /\ [][CompactNext]_vars

\* ------------------------------------------------- tools::insert_in_file
\* The tool is called on a file; contents are strings over a, b and the
\* line feed.
MaxFileLen == 3
MaxAnchorLen == 2

LF == "\n"

Strings(alphabet, n) == UNION { [1..k -> alphabet] : k \in 0..n }

FileContents == Strings({"a", "b", LF}, MaxFileLen)
Anchors == Strings({"a", LF}, MaxAnchorLen)
Insertions == {<<>>, <<"c">>}
Positions == {"before", "after", "middle"}

InsertOk == [kind |-> "Ok", text |-> "Successfully inserted content in path"]
InsertErr(text) == [kind |-> "Err", text |-> text]

\* str::contains
str_contains(s, pat) ==
    \E i \in 0..(Len(s) - Len(pat)) : SubSeq(s, i + 1, i + Len(pat)) = pat

\* str::replace: every match of `from`, left to right without overlap; the
\* empty pattern matches before every character and at the end.
RECURSIVE str_replace(_, _, _)
str_replace(s, from, to) ==
    IF from = <<>>
    THEN to \o (IF s = <<>> THEN <<>> ELSE <<Head(s)>> \o str_replace(Tail(s), from, to))
    ELSE IF Len(s) < Len(from) THEN s
    ELSE IF SubSeq(s, 1, Len(from)) = from
    THEN to \o str_replace(SubSeq(s, Len(from) + 1, Len(s)), from, to)
    ELSE <<Head(s)>> \o str_replace(Tail(s), from, to)

\* insert_in_file(path, anchor, content, position) on a file holding `f`:
\* what it returns and what the file holds afterwards.
insert_in_file(f, anchor, content, position, can_write) ==
    IF f = None
    THEN [result |-> InsertErr("Failed to read file"), file |-> f]
    ELSE IF ~str_contains(f[1], anchor)
    THEN [result |-> InsertErr("Anchor not found in file"), file |-> f]
    ELSE IF position \notin {"before", "after"}
    THEN [result |-> InsertErr("Position must be 'before' or 'after'"), file |-> f]
    ELSE LET new_content ==
                 IF position = "before"
                 THEN str_replace(f[1], anchor, content \o <<LF>> \o anchor)
                 ELSE str_replace(f[1], anchor, anchor \o <<LF>> \o content)
         IN  IF ~can_write
             THEN [result |-> InsertErr("Failed to write file"), file |-> f]
             ELSE [result |-> InsertOk, file |-> Some(new_content)]

InsertInit ==
    /\ opts = [max_steps |-> 1, yolo |-> TRUE, observation_clip |-> 24]
    /\ vocabulary = {"insert_in_file"}
    /\ entry = "insert_in_file"
    /\ messages = <<>>
    /\ loaded = messages
    /\ pc = "tool"
    /\ step = 0
    /\ tasks = <<>>
    /\ next_task = 1
    /\ completed = <<>>
    /\ ret = None
    /\ run_result = "none"
    /\ limit_reported = FALSE
    /\ model_calls = 0
    /\ sent = <<>>
    /\ executed = {}
    /\ approvals = {}
    /\ ChatIdle
    /\ ApprovalIdle
    /\ file \in {None} \cup { Some(c) : c \in FileContents }
    /\ original = file
    /\ insert_args \in [anchor : Anchors, content : Insertions, position : Positions]
    /\ writable \in BOOLEAN
    /\ tool_result = None
    /\ ShellIdle

\* One call of the tool.
InsertInFile ==
    /\ entry = "insert_in_file"
    /\ tool_result = None
    /\ LET r == insert_in_file(file, insert_args.anchor, insert_args.content, insert_args.position, writable) IN
        /\ tool_result' = Some(r.result)
        /\ file' = r.file
    /\ UNCHANGED <<agent_vars, stream_vars, shell_vars, approval_vars, original, insert_args, writable>>

InsertNext == InsertInFile

InsertSpec == InsertInit /\ [][InsertNext]_vars

\* ------------------------------------------------------ tools::run_shell
\* The tool is called with a command line of up to MaxWords words.
MaxWords == 3

DENIED_COMMANDS == {"rm", "dd", "mkfs", ":(", "sudo", "su"}

\* The words of the command lines: the command names of the tool's
\* description, a harmless command, the same command by its path, and the
\* shell's command separator.
Words == {"rm", "sudo", "dd", "mkfs", "su", "ls", "/bin/rm", ";"}
CommandLines == UNION { [1..k -> Words] : k \in 0..MaxWords }

\* How the spawned shell ends: spawn fails, exit 0, exit non-zero, or still
\* running after TIMEOUT_SECONDS.
ProcessOutcomes == {"spawn_failed", "success", "failure", "timeout"}

ShellOk(text) == [kind |-> "Ok", text |-> text]
ShellErr(text) == [kind |-> "Err", text |-> text]

\* run_shell(command): what it returns and the command lines it spawned.
run_shell(cmd, outcome) ==
    IF cmd = <<>>
    THEN [result |-> ShellErr("Empty command"), spawned |-> <<>>]
    ELSE IF Head(cmd) \in DENIED_COMMANDS
    THEN [result |-> ShellErr("Denied command"), spawned |-> <<>>]
    ELSE CASE outcome = "spawn_failed" ->
                [result |-> ShellErr("Failed to spawn"), spawned |-> <<>>]
           [] outcome = "success" ->
                [result |-> ShellOk("stdout"), spawned |-> <<cmd>>]
           [] outcome = "failure" ->
                [result |-> ShellErr("stderr"), spawned |-> <<cmd>>]
           [] OTHER ->
                [result |-> ShellErr("Command timed out after 30 seconds"),
                 spawned |-> <<cmd>>]

ShellInit ==
    /\ opts = [max_steps |-> 1, yolo |-> TRUE, observation_clip |-> 24]
    /\ vocabulary = {"run_shell"}
    /\ entry = "run_shell"
    /\ messages = <<>>
    /\ loaded = messages
    /\ pc = "tool"
    /\ step = 0
    /\ tasks = <<>>
    /\ next_task = 1
    /\ completed = <<>>
    /\ ret = None
    /\ run_result = "none"
    /\ limit_reported = FALSE
    /\ model_calls = 0
    /\ sent = <<>>
    /\ executed = {}
    /\ approvals = {}
    /\ ChatIdle
    /\ FileIdle
    /\ ApprovalIdle
    /\ command \in CommandLines
    /\ spawned = <<>>
    /\ shell_result = None

\* One call of the tool.
RunShell ==
    /\ entry = "run_shell"
    /\ shell_result = None
    /\ \E outcome \in ProcessOutcomes :
        LET r == run_shell(command, outcome) IN
        /\ shell_result' = Some(r.result)
        /\ spawned' = r.spawned
    /\ UNCHANGED <<agent_vars, stream_vars, file_vars, approval_vars, command>>

ShellNext == RunShell

ShellSpec == ShellInit /\ [][ShellNext]_vars

\* ------------------------------------------------------ get_user_approval
\* The terminal holds up to MaxInputs lines before its end of input, and
\* the stack holds MaxDepth nested retries.
MaxInputs == 2
MaxDepth == 3

\* What a call of read_line can meet: a line the user typed, with its line
\* feed, or a failure of the read.  When nothing is left the terminal is
\* at end of input.
IoFailure == [failed |-> TRUE, line |-> <<>>]
TerminalLines ==
    { <<"y", LF>>, <<" ", "Y", " ", LF>>, <<"y", "e", "s", LF>>,
      <<"n", LF>>, <<"N", "o", LF>>, <<"x", LF>>, <<LF>> }
TerminalReads == { [failed |-> FALSE, line |-> l] : l \in TerminalLines } \cup {IoFailure}
TerminalInputs == UNION { [1..n -> TerminalReads] : n \in 0..MaxInputs }

\* str::to_lowercase
lower(c) ==
    CASE c = "Y" -> "y"
      [] c = "N" -> "n"
      [] c = "O" -> "o"
      [] c = "E" -> "e"
      [] c = "S" -> "s"
      [] OTHER -> c
to_lowercase(s) == [i \in 1..Len(s) |-> lower(s[i])]

\* io::stdin().read_line(&mut input): the next line, nothing at end of
\* input, or a failure.
read_line(in) ==
    IF in = <<>> THEN [failed |-> FALSE, input |-> <<>>, rest |-> <<>>]
    ELSE [failed |-> Head(in).failed, input |-> Head(in).line, rest |-> Tail(in)]

\* The match on input.trim().to_lowercase().
approval_answer(input) ==
    LET a == to_lowercase(trim(input)) IN
    CASE a \in {<<"y">>, <<"y", "e", "s">>} -> "Ok(true)"
      [] a \in {<<"n">>, <<"n", "o">>} -> "Ok(false)"
      [] OTHER -> "retry"

ApprovalInit ==
    /\ opts = [max_steps |-> 1, yolo |-> FALSE, observation_clip |-> 24]
    /\ vocabulary = {"run_shell"}
    /\ entry = "get_user_approval"
    /\ messages = <<>>
    /\ loaded = messages
    /\ pc = "tool"
    /\ step = 0
    /\ tasks = <<>>
    /\ next_task = 1
    /\ completed = <<>>
    /\ ret = None
    /\ run_result = "none"
    /\ limit_reported = FALSE
    /\ model_calls = 0
    /\ sent = <<>>
    /\ executed = {}
    /\ approvals = {}
    /\ ChatIdle
    /\ FileIdle
    /\ ShellIdle
    /\ stdin \in TerminalInputs
    /\ tail_call \in BOOLEAN
    /\ depth = 0
    /\ approval_pc = "reading"
    /\ approval_result = None

\* One activation of get_user_approval: it prints the prompt, reads a
\* line and matches it.  An answer or a failed read returns through every
\* activation below it; anything else calls get_user_approval again, on a
\* new stack frame unless the build made the call a jump, and the process
\* is aborted when the stack is exhausted.
GetUserApproval ==
    /\ entry = "get_user_approval"
    /\ approval_pc = "reading"
    /\ LET r == read_line(stdin)
           verdict == IF r.failed THEN "Err" ELSE approval_answer(r.input) IN
        /\ stdin' = r.rest
        /\ IF verdict # "retry"
           THEN /\ approval_result' = Some(verdict)
                /\ approval_pc' = "returned"
                /\ depth' = depth
           ELSE IF tail_call
           THEN UNCHANGED <<depth, approval_pc, approval_result>>
           ELSE IF depth < MaxDepth
           THEN /\ depth' = depth + 1
                /\ UNCHANGED <<approval_pc, approval_result>>
           ELSE /\ approval_pc' = "aborted"
                /\ UNCHANGED <<depth, approval_result>>
    /\ UNCHANGED <<agent_vars, stream_vars, file_vars, shell_vars, tail_call>>

ApprovalNext == GetUserApproval

\* The call runs on: an activation that can act does.
ApprovalSpec == ApprovalInit /\ [][ApprovalNext]_vars /\ WF_vars(ApprovalNext)

\* ------------------------------------------------------------ properties
\* The current step has received the model's turn and recorded it.
StepResponded ==
    /\ model_calls > 0
    /\ Len(messages) > Len(sent)

\* The assistant message of the current step and the tool messages after it.
StepTurn == messages[Len(sent) + 1]
StepToolMessages == SubSeq(messages, Len(sent) + 2, Len(messages))

StepEnded == pc \in {"loop", "returned"}

\* C1: in run_turn, whatever the order in which the tool tasks of a turn
\* finish, the k-th tool message appended is the one built from the k-th
\* request's task, and carries that request's id when it carries one.
C1_DispatchOrderPreserved ==
    (entry = "run_agent_loop" /\ StepResponded /\ StepTurn.tool_calls # None) =>
        \A k \in 1..Len(StepToolMessages) :
            /\ k <= Len(tasks)
            /\ tasks[k].pc = "finished"
            /\ StepToolMessages[k] = gather_message(tasks[k].result[1], opts.observation_clip)
            /\ StepToolMessages[k].tool_call_id # None =>
                    StepToolMessages[k].tool_call_id[1] = StepTurn.tool_calls[1][k].id

\* Two tasks finished in reverse order and both tool messages are appended.
C1_Witness ==
    /\ entry = "run_agent_loop"
    /\ StepResponded
    /\ Len(tasks) = 2
    /\ completed = <<2, 1>>
    /\ Len(StepToolMessages) = 2
    /\ StepToolMessages[1].tool_call_id = Some(StepTurn.tool_calls[1][1].id)
    /\ StepToolMessages[2].tool_call_id = Some(StepTurn.tool_calls[1][2].id)

\* C2: a step whose turn holds a request with unparsable arguments still
\* succeeds: it returns "no final answer" without error, every request of
\* the turn has its tool message, and the malformed request runs no tool.
C2_MalformedArgsIsolated ==
    (StepResponded /\ StepEnded /\ HasMalformedArgs(StepTurn)) =>
        /\ ret = Some(OkNone)
        /\ Len(StepToolMessages) = Len(StepTurn.tool_calls[1])
        /\ \A e \in executed :
              e.step = model_calls => json_parses(StepTurn.tool_calls[1][e.idx].arguments)

\* C3: a step returns an error only when the model call timed out or the
\* transport failed; a step that dispatched tool calls returns "no final
\* answer" whatever the outcomes of the calls.
C3_OnlyModelCallFailsStep ==
    /\ (ret # None /\ ret[1].kind = "Err") => ret[1].error \in {"Elapsed", "Transport"}
    /\ (StepResponded /\ StepEnded /\ StepTurn.tool_calls # None) => ret = Some(OkNone)

\* C4: with auto_approve false, a call whose approval request was answered
\* with a denial has exactly the observation "User denied execution", and
\* its tool is never invoked.
C4_DenialNotExecuted ==
    \A a \in approvals :
        (~opts.yolo /\ a.answer = "Ok(false)") =>
            /\ \A e \in executed : ~(e.step = a.step /\ e.idx = a.idx)
            /\ a.step = model_calls =>
                  /\ tasks[a.idx].pc = "finished"
                  /\ tasks[a.idx].result = Some(TaskOk(tasks[a.idx].id, STR_USER_DENIED))

\* A denied call whose tool message, holding the denial string, is appended.
C4_Witness ==
    \E a \in approvals :
        /\ ~opts.yolo
        /\ a.answer = "Ok(false)"
        /\ a.step = model_calls
        /\ Len(StepToolMessages) >= a.idx
        /\ StepToolMessages[a.idx].content = Some(STR_USER_DENIED)

\* Tools that can alter the filesystem or execute commands.
MutatingTools == {"write_file", "edit_file", "insert_in_file", "run_shell"}

\* C5: with auto_approve false, a tool that can alter the filesystem or
\* execute commands is invoked only for a call whose approval request was
\* made and answered with approval.
C5_MutatingToolsGated ==
    ~opts.yolo =>
        \A e \in executed :
            e.name \in MutatingTools =>
                [step |-> e.step, idx |-> e.idx, answer |-> "Ok(true)"] \in approvals

\* The turn of the current step has no tool calls.
TextTurnRecorded ==
    /\ StepResponded
    /\ StepTurn.role = "assistant"
    /\ StepTurn.tool_calls = None

IsBlank(content) == content = None \/ trim(content[1]) = <<>>

\* C6: when the turn of a step of run_agent_loop has no tool calls and its
\* content is not blank, run_turn returns that content trimmed and the run
\* is over: it has returned Ok, nothing was appended after the assistant
\* message, and no further model call or tool dispatch can happen.
C6_FinalAnswerEndsRun ==
    (entry = "run_agent_loop" /\ TextTurnRecorded /\ ~IsBlank(StepTurn.content)) =>
        /\ ret = Some(OkSome(trim(StepTurn.content[1])))
        /\ pc = "returned"
        /\ run_result = "Ok"
        /\ Len(messages) = Len(sent) + 1
        /\ model_calls = step + 1
        /\ ~ENABLED Next

\* A padded answer given on the second step of a run is returned trimmed.
C6_Witness ==
    /\ entry = "run_agent_loop"
    /\ TextTurnRecorded
    /\ StepTurn.content = Some(PaddedAnswer)
    /\ ret = Some(OkSome(<<"h", "i">>))
    /\ model_calls = 2

RunOver == pc \in {"returned", "panicked"}

RECURSIVE CountRole(_, _)
CountRole(msgs, role) ==
    IF msgs = <<>> THEN 0
    ELSE (IF Head(msgs).role = role THEN 1 ELSE 0) + CountRole(Tail(msgs), role)

\* Every model call of the run so far was answered with one tool call.
OneToolCallPerTurn ==
    /\ model_calls >= 1
    /\ CountRole(messages, "assistant") = model_calls
    /\ \A j \in 1..Len(messages) :
          messages[j].role = "assistant" =>
              (messages[j].tool_calls # None /\ Len(messages[j].tool_calls[1]) = 1)

\* C9: a run of run_agent_loop with max_steps = k whose model asks for one
\* tool call on every turn ends without error after exactly k steps, with k
\* assistant messages each directly followed by its tool message after the
\* seeded user message, and the step limit reported.
C9_StepLimitScenario ==
    (entry = "run_agent_loop" /\ RunOver /\ OneToolCallPerTurn) =>
        /\ pc = "returned"
        /\ run_result = "Ok"
        /\ step = opts.max_steps
        /\ model_calls = opts.max_steps
        /\ limit_reported
        /\ Len(messages) = 2 + 2 * opts.max_steps
        /\ \A j \in 1..opts.max_steps :
              /\ messages[1 + 2 * j].role = "assistant"
              /\ messages[2 + 2 * j].role = "tool"

StepDispatched ==
    /\ StepResponded
    /\ StepTurn.tool_calls # None
    /\ ~HasMalformedArgs(StepTurn)

\* C11: every tool message a step appends for a request of its turn carries
\* a tool_call_id equal to that request's id, whatever the outcome of the
\* request (success, tool failure, denial, approval failure, join failure).
C11_ToolMessageCarriesRequestId ==
    StepDispatched =>
        \A k \in 1..Len(StepToolMessages) :
            StepToolMessages[k].tool_call_id = Some(StepTurn.tool_calls[1][k].id)

\* The step is over: it returned to its caller, or it was aborted by a panic.
StepOver == StepEnded \/ pc = "panicked"

\* C12: a step that dispatched the N requests of its turn has appended, when
\* it is over, the assistant message followed by exactly N tool messages and
\* nothing else, the k-th one built from the k-th request's task; while it
\* runs it never holds more than N tool messages.
C12_OneToolMessagePerRequest ==
    StepDispatched =>
        /\ StepTurn.role = "assistant"
        /\ Len(StepToolMessages) <= Len(StepTurn.tool_calls[1])
        /\ \A k \in 1..Len(StepToolMessages) : StepToolMessages[k].role = "tool"
        /\ StepOver => Len(StepToolMessages) = Len(StepTurn.tool_calls[1])

\* A task of the current step crashed.
SomeTaskCrashed ==
    /\ StepDispatched
    /\ \E i \in 1..Len(tasks) : tasks[i].result = Some(TaskPanicked)

\* C13: when a tool task of a turn crashed, the step is not aborted; the
\* crash is the content of the tool message at that request's position, no
\* sibling is cancelled (each finishes and has its own tool message), and
\* the step returns "no final answer" without error.
C13_TaskCrashIsolated ==
    SomeTaskCrashed =>
        /\ pc # "panicked"
        /\ \A k \in 1..Len(StepToolMessages) :
              tasks[k].result = Some(TaskPanicked) =>
                  StepToolMessages[k].content = Some(STR_JOIN_ERROR \o PanicText)
        /\ StepEnded =>
              /\ ret = Some(OkNone)
              /\ Len(StepToolMessages) = Len(tasks)
              /\ \A i \in 1..Len(tasks) : tasks[i].pc = "finished"

\* ------------------------------------------------ properties of chat_once
ChatReturnedOk ==
    /\ chat_pc = "returned"
    /\ chat_result # None
    /\ chat_result[1].kind = "Ok"

ReturnedTurn == chat_result[1].turn

\* A fragment that carries deltas and no finish status.
IsDelta(line) == line.kind = "json" /\ line.finish_reason = None

RECURSIVE LogicalContent(_)
LogicalContent(lines) ==
    IF lines = <<>> THEN <<>>
    ELSE (IF Head(lines).content # None THEN Head(lines).content[1] ELSE <<>>)
         \o LogicalContent(Tail(lines))

\* The tool-call deltas of the lines for one index, in arrival order.
RECURSIVE DeltasAt(_, _)
DeltasAt(lines, idx) ==
    IF lines = <<>> THEN <<>>
    ELSE SelectSeq(Head(lines).tool_calls, LAMBDA d : d.index = idx)
         \o DeltasAt(Tail(lines), idx)

RECURSIVE LogicalArguments(_)
LogicalArguments(ds) ==
    IF ds = <<>> THEN <<>>
    ELSE (IF Head(ds).arguments # None THEN Head(ds).arguments[1] ELSE <<>>)
         \o LogicalArguments(Tail(ds))

IndexesOf(lines) == { idx \in StreamIndexes : DeltasAt(lines, idx) # <<>> }

\* The k-th smallest element of a set of indexes.
KthIndex(S, k) == CHOOSE i \in S : Cardinality({ j \in S : j < i }) = k - 1

\* The lines are fragments of one logical stream: deltas only, the id and
\* name of each call carried by its first fragment and absent or repeated
\* afterwards.
PureFragmentation(lines) ==
    /\ \A k \in 1..Len(lines) : IsDelta(lines[k])
    /\ \A idx \in IndexesOf(lines) :
          LET ds == DeltasAt(lines, idx) IN
          /\ ds[1].id = Some(CallIdOf(idx))
          /\ ds[1].name = Some(StreamToolName)
          /\ \A k \in 2..Len(ds) :
                /\ ds[k].id \in {None, Some(CallIdOf(idx))}
                /\ ds[k].name \in {None, Some(StreamToolName)}

\* The Turn of the logical stream: the whole content text, and per index
\* the call with its whole argument text, by ascending index.
LogicalTurn(lines) ==
    LET S == IndexesOf(lines) IN
    Message("assistant", Some(LogicalContent(lines)),
            IF S = {} THEN None
            ELSE Some([k \in 1..Cardinality(S) |->
                        ToolCall(CallIdOf(KthIndex(S, k)), StreamToolName,
                                 LogicalArguments(DeltasAt(lines, KthIndex(S, k))))]),
            None)

\* C14: the Turn chat_once returns for a stream of content deltas and
\* indexed tool-call deltas is the Turn of the logical stream (the
\* concatenated content, the concatenated arguments per index): it is the
\* same for every way of cutting the content and the arguments into
\* fragments.
C14_FragmentationInvariance ==
    (ChatReturnedOk /\ response.status = SuccessStatus /\ PureFragmentation(response.lines)) =>
        ReturnedTurn = LogicalTurn(response.lines)

\* A stream that cuts the arguments in two and sends the content whole gives
\* the Turn of the stream that cuts the content in two and sends the
\* arguments whole.
C14_Witness ==
    /\ ChatReturnedOk
    /\ response.lines =
          <<ToolDelta(TcDelta(0, Some(CallIdOf(0)), Some(StreamToolName), Some(<<"{">>))),
            ContentDelta(<<"h", "i">>),
            ToolDelta(TcDelta(0, None, None, Some(<<"}">>)))>>
    /\ ReturnedTurn =
          chat_once(<<ContentDelta(<<"h">>), ContentDelta(<<"i">>),
                      ToolDelta(TcDelta(0, Some(CallIdOf(0)), Some(StreamToolName),
                                        Some(<<"{", "}">>)))>>)
    /\ ReturnedTurn.tool_calls = Some(<<ToolCall(CallIdOf(0), StreamToolName, <<"{", "}">>)>>)

\* The last non-empty value of a field among the deltas, "" when none.
RECURSIVE LastSet(_, _)
LastSet(ds, field) ==
    IF ds = <<>> THEN ""
    ELSE LET d == ds[Len(ds)] IN
         IF d[field] # None /\ d[field][1] # ""
         THEN d[field][1]
         ELSE LastSet(SubSeq(ds, 1, Len(ds) - 1), field)

\* C15: for the tool-call deltas of one index, the call of the Turn holds
\* the argument fragments concatenated in arrival order, and the id and
\* name last set by a fragment: a later fragment whose id or name is empty
\* does not overwrite them.
C15_ArgumentsAppendedIdKept ==
    (ChatReturnedOk /\ \A k \in 1..Len(response.lines) : IsDelta(response.lines[k])) =>
        \A idx \in IndexesOf(response.lines) :
            LET ds == DeltasAt(response.lines, idx) IN
            /\ ReturnedTurn.tool_calls # None
            /\ \E k \in 1..Len(ReturnedTurn.tool_calls[1]) :
                  ReturnedTurn.tool_calls[1][k] =
                      ToolCall(LastSet(ds, "id"), LastSet(ds, "name"), LogicalArguments(ds))

\* The lines chat_once has accumulated: the fragments among the lines read
\* that did not stop the accumulation.
AccumulatedLines ==
    SelectSeq(SubSeq(response.lines, 1, cursor),
              LAMBDA l : l.kind = "json" /\ ~finish_stops(l))

\* C16: the tool-call list of the returned Turn is absent when no tool-call
\* delta was accumulated, and otherwise has one entry per distinct index
\* accumulated, in ascending index order whatever the arrival order.
C16_ToolCallsSortedByIndex ==
    ChatReturnedOk =>
        LET S == IndexesOf(AccumulatedLines) IN
        IF S = {}
        THEN ReturnedTurn.tool_calls = None
        ELSE /\ ReturnedTurn.tool_calls # None
             /\ Len(ReturnedTurn.tool_calls[1]) = Cardinality(S)
             /\ \A k \in 1..Cardinality(S) :
                   LET call == ReturnedTurn.tool_calls[1][k]
                       ds == DeltasAt(AccumulatedLines, KthIndex(S, k)) IN
                   /\ call.arguments = LogicalArguments(ds)
                   /\ call.id \in {"", CallIdOf(KthIndex(S, k))}

\* The delta of index 1 arrived before the deltas of index 0, and the Turn
\* lists the call of index 0 first.
C16_Witness ==
    /\ ChatReturnedOk
    /\ Len(response.lines) = 3
    /\ response.lines[1] =
          ToolDelta(TcDelta(1, Some(CallIdOf(1)), Some(StreamToolName), Some(<<"{", "}">>)))
    /\ ReturnedTurn.tool_calls # None
    /\ Len(ReturnedTurn.tool_calls[1]) = 2
    /\ ReturnedTurn.tool_calls[1][1].id = CallIdOf(0)
    /\ ReturnedTurn.tool_calls[1][2].id = CallIdOf(1)

\* The lines that can be parsed as a fragment or as the done marker.
Parsable(lines) ==
    SelectSeq(lines, LAMBDA l : l.kind \notin {"noise", "empty", "malformed"})

\* C17: lines that cannot be parsed are skipped: the Turn returned for a
\* body is the Turn of the same body without its unparsable lines.
C17_UnparsableSkipped ==
    (ChatReturnedOk /\ response.status = SuccessStatus) =>
        ReturnedTurn = chat_once(Parsable(response.lines))

\* C18: when the response has a non-success status, the connection failed
\* or a read of the stream failed, chat_once returns an error; a Turn is
\* returned only for a success response read up to its end or its stop.
C18_TransportFailureIsError ==
    chat_pc = "returned" =>
        /\ response.status # SuccessStatus => chat_result[1].kind = "Err"
        /\ chat_result[1].kind = "Ok" =>
              \/ cursor = Len(response.lines)
              \/ process_line(Accumulation(<<>>, <<>>), response.lines[cursor]).should_stop

IsFinishSignal(line) ==
    line.kind = "done" \/ (line.kind = "json" /\ line.finish_reason # None)

\* C19: when the body holds a finish signal, the Turn returned is the Turn
\* of the body up to its first finish signal; when it holds none, every
\* line of the body is read before the Turn is returned.
C19_FinishEndsAccumulation ==
    (ChatReturnedOk /\ response.status = SuccessStatus) =>
        LET finishes == { k \in 1..Len(response.lines) : IsFinishSignal(response.lines[k]) } IN
        IF finishes # {}
        THEN LET first == CHOOSE k \in finishes : \A j \in finishes : k <= j IN
             ReturnedTurn = chat_once(SubSeq(response.lines, 1, first))
        ELSE cursor = Len(response.lines)

\* ------------------------------------------ properties of compact_history
\* The first `budget` units of a text followed by the truncation marker.
Truncated(text, budget) == SubSeq(text, 1, budget) \o TRUNCATION_MARKER

\* C20: a call of compact_history returns, and afterwards every tool
\* message whose content was longer than observation_clip holds the first
\* observation_clip units of that content followed by the truncation
\* marker, every other message is unchanged, and no message has changed its
\* role, tool_calls or tool_call_id.
C20_CompactionFrame ==
    (entry = "compact_history" /\ pc # "session") =>
        /\ pc = "compacted"
        /\ Len(messages) = Len(loaded)
        /\ \A i \in 1..Len(loaded) :
              LET before == loaded[i]
                  after == messages[i] IN
              /\ after.role = before.role
              /\ after.tool_calls = before.tool_calls
              /\ after.tool_call_id = before.tool_call_id
              /\ after.content =
                    IF /\ before.role = "tool"
                       /\ before.content # None
                       /\ Len(before.content[1]) > opts.observation_clip
                    THEN Some(Truncated(before.content[1], opts.observation_clip))
                    ELSE before.content

\* Every tool content of the history is an output of clip for this budget.
ProducedByClip(msgs, budget) ==
    \A i \in 1..Len(msgs) :
        (msgs[i].role = "tool" /\ msgs[i].content # None) =>
            \E t \in ObservationTexts :
                clip(t, budget) # PANIC /\ clip(t, budget) = msgs[i].content[1]

\* C21: once compact_history has returned for a history, a second call on
\* the result returns too and gives the same history as the first call;
\* and on a history whose tool contents are outputs of clip for the same
\* observation_clip, compact_history returns that history unchanged.
C21_CompactionIdempotent ==
    entry = "compact_history" =>
        /\ pc = "panicked" => step = 0
        /\ step = 2 => messages = compact_history(loaded, opts.observation_clip)
        /\ ProducedByClip(loaded, opts.observation_clip) =>
              /\ pc # "panicked"
              /\ messages = loaded

\* A denial observation was cut at 3 bytes by the first call, and the second
\* call has returned.
C21_Witness ==
    /\ entry = "compact_history"
    /\ step = 2
    /\ opts.observation_clip = 3
    /\ loaded[1].role = "tool"
    /\ loaded[1].content = Some(STR_USER_DENIED)
    /\ messages[1].content = Some(<<"U", "s", "e">> \o TRUNCATION_MARKER)

\* Whether `text` ends with `suffix`.
EndsWith(text, suffix) ==
    /\ Len(text) >= Len(suffix)
    /\ SubSeq(text, Len(text) - Len(suffix) + 1, Len(text)) = suffix

\* C22: after compact_history has returned, every tool message whose
\* content was longer than observation_clip has a content of at most
\* observation_clip plus the marker's length, ending with the marker.
C22_ClippedContentBounded ==
    (entry = "compact_history" /\ step >= 1) =>
        \A i \in 1..Len(loaded) :
            (/\ loaded[i].role = "tool"
             /\ loaded[i].content # None
             /\ Len(loaded[i].content[1]) > opts.observation_clip) =>
                /\ Len(messages[i].content[1]) <= opts.observation_clip + Len(TRUNCATION_MARKER)
                /\ EndsWith(messages[i].content[1], TRUNCATION_MARKER)

\* A 27-byte tool content compacted with observation_clip = 24.
C22_Witness ==
    /\ entry = "compact_history"
    /\ step >= 1
    /\ opts.observation_clip = 24
    /\ \E i \in 1..Len(loaded) :
          /\ loaded[i].role = "tool"
          /\ loaded[i].content = Some(LongOutput)
          /\ Len(messages[i].content[1]) = 24 + Len(TRUNCATION_MARKER)

\* --------------------------------------------- the history during a run
\* The message is a tool message with a content longer than `n` bytes.
ToolContentOver(m, n) ==
    m.role = "tool" /\ m.content # None /\ Len(m.content[1]) > n

\* The crash observation as the compaction of the next step leaves it.
CompactedCrash ==
    Truncated(STR_JOIN_ERROR \o PanicText, opts.observation_clip)

C24_EveryObservationClipped ==
    StepDispatched =>
        \A k \in 1..Len(StepToolMessages) :
            ~ToolContentOver(StepToolMessages[k],
                             opts.observation_clip + Len(TRUNCATION_MARKER))

\* C25: every step of a run keeps each message of the history at its
\* position with its role, tool calls and tool_call_id, adds at most one
\* message, at the end, and changes the content of a message only when it
\* is a tool message, to its truncation.
C25_HistoryAppendOnly ==
    [][/\ Len(messages') \in {Len(messages), Len(messages) + 1}
       /\ \A i \in 1..Len(messages) :
             /\ messages'[i].role = messages[i].role
             /\ messages'[i].tool_calls = messages[i].tool_calls
             /\ messages'[i].tool_call_id = messages[i].tool_call_id
             /\ messages'[i].content # messages[i].content =>
                   /\ messages[i].role = "tool"
                   /\ Len(messages') = Len(messages)
                   /\ messages'[i].content =
                         Some(Truncated(messages[i].content[1], opts.observation_clip))]_vars

\* A run of two steps has returned; its history holds the first step's crash
\* observation, cut by the second step's compaction, and the second step's
\* assistant message after it.
C25_Witness ==
    /\ pc = "returned"
    /\ model_calls = 2
    /\ \E i \in 1..Len(messages) - 1 :
          /\ messages[i].role = "tool"
          /\ messages[i].content = Some(CompactedCrash)
          /\ messages[Len(messages)].role = "assistant"

\* ------------------------------------------------- failures inside a step
\* The content is the observation, as it is or clipped.
Records(content, obs) ==
    content \in {Some(obs), Some(clip(obs, opts.observation_clip))}

\* The step went on to its end, or is still running: it was not aborted.
StepSurvives ==
    /\ pc # "panicked"
    /\ StepEnded =>
          /\ ret = Some(OkNone)
          /\ Len(StepToolMessages) = Len(tasks)
          /\ \A i \in 1..Len(tasks) : tasks[i].pc = "finished"

\* The tool invoked for the k-th request of the step returned an error.
ToolFailedAt(k) ==
    /\ k <= Len(tasks)
    /\ tasks[k].pc = "finished"
    /\ tasks[k].result[1] \in
          { TaskOk(tasks[k].id, STR_ERROR_PREFIX \o ToolErrText), TaskErr(ToolErrText) }

\* C26: when the tool invoked for a request returned an error, the tool
\* message of that request holds "Error: " followed by the error text and
\* carries the request's id, and the step is not aborted and returns "no
\* final answer" without error.
C26_ToolErrorBecomesObservation ==
    StepDispatched =>
        \A k \in 1..Len(tasks) :
            ToolFailedAt(k) =>
                /\ StepSurvives
                /\ k <= Len(StepToolMessages) =>
                      /\ StepToolMessages[k].role = "tool"
                      /\ Records(StepToolMessages[k].content, STR_ERROR_PREFIX \o ToolErrText)
                      /\ StepToolMessages[k].tool_call_id = Some(tasks[k].id)

\* The approval request of the k-th request of the step failed.
ApprovalFailedAt(k) ==
    [step |-> model_calls, idx |-> k, answer |-> "Err"] \in approvals

\* C27: when the approval request of a call failed with an I/O error, the
\* tool message of that call holds the error text, no tool was invoked for
\* the call, and the step is not aborted: every sibling finishes and has its
\* tool message, and the step returns "no final answer" without error.
C27_ApprovalFailureIsolated ==
    StepDispatched =>
        \A k \in 1..Len(tasks) :
            ApprovalFailedAt(k) =>
                /\ \A e \in executed : ~(e.step = model_calls /\ e.idx = k)
                /\ StepSurvives
                /\ k <= Len(StepToolMessages) =>
                      /\ Records(StepToolMessages[k].content,
                                 STR_ERROR_PREFIX \o STR_READ_INPUT \o IoErrText)
                      /\ StepToolMessages[k].tool_call_id = Some(tasks[k].id)

\* C28: a request whose name is not a registered tool invokes no tool, its
\* tool message holds "Error: unknown tool" and carries the request's id,
\* and the step is not aborted: every sibling finishes and has its tool
\* message, and the step returns "no final answer" without error.
C28_UnknownToolIsolated ==
    StepDispatched =>
        \A k \in 1..Len(tasks) :
            tasks[k].name \notin DispatchedTools =>
                /\ \A e \in executed : ~(e.step = model_calls /\ e.idx = k)
                /\ StepSurvives
                /\ k <= Len(StepToolMessages) =>
                      /\ Records(StepToolMessages[k].content, STR_UNKNOWN_TOOL)
                      /\ StepToolMessages[k].tool_call_id = Some(tasks[k].id)

\* The tools that only read.
ReadOnlyTools == {"list_dir", "read_file", "search_in_files"}

\* C29: requires_approval is true for write_file, run_shell and edit_file
\* and false for list_dir, read_file and search_in_files; a task of a
\* read-only tool never waits for an approval and has no approval record;
\* and with auto_approve true no approval is ever requested.
C29_ApprovalOnlyForDestructive ==
    /\ \A n \in {"write_file", "run_shell", "edit_file"} : requires_approval(n)
    /\ \A n \in ReadOnlyTools : ~requires_approval(n)
    /\ \A i \in 1..Len(tasks) :
          tasks[i].name \in ReadOnlyTools =>
              /\ tasks[i].pc \notin {"approval", "ready"}
              /\ tasks[i].retries = 0
              /\ \A a \in approvals : ~(a.step = model_calls /\ a.idx = i)
    /\ opts.yolo =>
          /\ approvals = {}
          /\ \A i \in 1..Len(tasks) : tasks[i].pc \notin {"approval", "ready"}

\* With auto_approve false, read_file was invoked for a request and no
\* approval was requested in the run.
C29_Witness ==
    /\ ~opts.yolo
    /\ entry = "run_agent_loop"
    /\ approvals = {}
    /\ \E i \in 1..Len(tasks) :
          /\ tasks[i].name = "read_file"
          /\ tasks[i].pc = "finished"
          /\ Invocation(i) \in executed

\* --------------------------------------------- properties of insert_in_file
\* str::lines: the text split at line feeds; a final line feed opens no line.
RECURSIVE str_lines(_)
str_lines(s) ==
    IF s = <<>> THEN <<>>
    ELSE IF \E i \in 1..Len(s) : s[i] = LF
    THEN LET n == CHOOSE i \in 1..Len(s) : s[i] = LF /\ \A j \in 1..(i - 1) : s[j] # LF
         IN  <<SubSeq(s, 1, n - 1)>> \o str_lines(SubSeq(s, n + 1, Len(s)))
    ELSE <<s>>

LineSet(s) == { str_lines(s)[i] : i \in 1..Len(str_lines(s)) }

InsertReturned == entry = "insert_in_file" /\ tool_result # None

\* C30: insert_in_file returns an error and leaves the file as it was when
\* the anchor does not occur in the file or the position is neither
\* "before" nor "after"; when it succeeds, every line of the original
\* content is a line of the new content.
C30_InsertKeepsFile ==
    (InsertReturned /\ original # None) =>
        /\ (~str_contains(original[1], insert_args.anchor)
            \/ insert_args.position \notin {"before", "after"}) =>
                /\ tool_result[1].kind = "Err"
                /\ file = original
        /\ tool_result[1].kind = "Ok" =>
                LineSet(original[1]) \subseteq LineSet(file[1])

\* -------------------------------------------------- properties of run_shell
\* The command names the tool's description calls dangerous.
DangerousCommands == {"rm", "sudo", "dd", "mkfs", "su"}

\* The program a word names: a path names the program of its last component.
ProgramOf(word) == IF word = "/bin/rm" THEN "rm" ELSE word

\* The shell runs a dangerous command for this line: one stands where the
\* shell reads a command name, at the start or after a separator.
InvokesDenied(cmd) ==
    \E i \in 1..Len(cmd) :
        /\ ProgramOf(cmd[i]) \in DangerousCommands
        /\ (i = 1 \/ cmd[i - 1] = ";")

ShellReturned == entry = "run_shell" /\ shell_result # None

\* C31: for every command line that invokes rm, sudo, dd, mkfs or su,
\* run_shell returns an error and spawns no process.
C31_DeniedCommandsBlocked ==
    (ShellReturned /\ InvokesDenied(command)) =>
        /\ shell_result[1].kind = "Err"
        /\ spawned = <<>>

\* ------------------------------------------- concurrent approval requests
\* C32: with auto_approve false the approval requests of a turn are not
\* serialized: while one task waits for its answer, a sibling that needs an
\* approval can print its prompt too, and when two tasks wait, either of
\* them can read the next answer.
C32_ApprovalsNotSerialized ==
    (pc = "gather" /\ entry = "run_agent_loop") =>
        \A i, j \in 1..Len(tasks) :
            (i # j /\ tasks[i].pc = "approval") =>
                /\ (tasks[j].pc = "spawned" /\ NeedsApproval(tasks[j])) =>
                      ENABLED TaskRequestApproval(j)
                /\ tasks[j].pc = "approval" =>
                      (ENABLED TaskApproval(i)) /\ (ENABLED TaskApproval(j))

\* Two tasks of the same turn have printed their prompt and neither has
\* read its answer.
C32_Witness ==
    /\ ~opts.yolo
    /\ pc = "gather"
    /\ Len(tasks) = 2
    /\ tasks[1].pc = "approval"
    /\ tasks[2].pc = "approval"
    /\ approvals = {}

\* ------------------------------------------ chat_once and transport chunks
\* C33: the Turn chat_once returns is the Turn of the body's lines,
\* however the transport cuts the body into chunks, a cut inside a line
\* included.
C33_ChunkingInvariance ==
    ChatReturnedOk => ReturnedTurn = chat_once(response.lines)

\* ------------------------------------------------ requests and their answers
\* The tool messages that follow the assistant message at position i, up to
\* the next message that is not a tool message, and carry the id.
AnswersTo(i, id) ==
    { j \in (i + 1)..Len(messages) :
        /\ \A n \in (i + 1)..j : messages[n].role = "tool"
        /\ messages[j].tool_call_id = Some(id) }

\* C34: when a step has ended, with a result or with an error, every
\* tool-call request of every assistant message of the history has exactly
\* one later tool message carrying its id.
C34_EveryRequestAnswered ==
    (entry \in Entries /\ StepEnded) =>
        \A i \in 1..Len(messages) :
            messages[i].tool_calls # None =>
                \A k \in 1..Len(messages[i].tool_calls[1]) :
                    Cardinality(AnswersTo(i, messages[i].tool_calls[1][k].id)) = 1

\* ------------------------------------------------ registry and dispatcher
\* C36: the registry declares exactly the names the dispatcher executes: a
\* finished call of a declared tool never has the unknown-tool observation,
\* and every tool invoked is declared.
C36_RegistryMatchesDispatcher ==
    /\ RegistryTools = DispatchedTools
    /\ \A i \in 1..Len(tasks) :
          (/\ tasks[i].name \in RegistryTools
           /\ tasks[i].pc = "finished"
           /\ tasks[i].result[1].kind = "Ok") =>
              tasks[i].result[1].obs # STR_UNKNOWN_TOOL
    /\ \A e \in executed : e.name \in RegistryTools

\* A call of ask_orackle, the last tool the registry declares, was
\* dispatched to its tool.
C36_Witness ==
    \E i \in 1..Len(tasks) :
        /\ tasks[i].name = "ask_orackle"
        /\ tasks[i].pc = "finished"
        /\ tasks[i].result[1].kind = "Ok"
        /\ Invocation(i) \in executed

\* ------------------------------------------------- the two steps compared
\* What a task of run_turn can end with, for the request of task t.
RunTurnResults(t) ==
    { run_task(t, o) : o \in OutcomesFor(t) }
    \cup { TaskPanicked,
           TaskOk(t.id, STR_USER_DENIED),
           TaskOk(t.id, STR_ERROR_PREFIX \o STR_READ_INPUT \o IoErrText) }

\* C35: a step through either entry point is the step run_turn makes of
\* the same turn, answers and outcomes: a turn without tool calls returns
\* what run_turn returns for its content, every finished task has a result
\* run_turn's task can have, and a tool that needs approval under the
\* options is invoked only for a call that was approved.
C35_StepsEquivalent ==
    /\ (StepResponded /\ StepEnded /\ StepTurn.tool_calls = None) =>
            ret = Some(final_text(StepTurn.content))
    /\ StepDispatched =>
            \A k \in 1..Len(tasks) :
                /\ tasks[k].pc = "finished" => tasks[k].result[1] \in RunTurnResults(tasks[k])
                /\ (Invocation(k) \in executed /\ NeedsApproval(tasks[k])) =>
                      [step |-> model_calls, idx |-> k, answer |-> "Ok(true)"] \in approvals

\* ------------------------------------------- chat_once and the finish fragment
IsPrefix(p, t) == Len(p) <= Len(t) /\ SubSeq(t, 1, Len(p)) = p

\* The positions of the fragments that carry a finish status.
FinishFragments(lines) ==
    { k \in 1..Len(lines) : lines[k].kind = "json" /\ lines[k].finish_reason # None }

\* The body holds a finish fragment and before it only lines that are
\* skipped or fragments; its first finish fragment is at position f.
EndsByFinishAt(lines, f) ==
    /\ f \in FinishFragments(lines)
    /\ \A k \in 1..(f - 1) :
          /\ k \notin FinishFragments(lines)
          /\ lines[k].kind \in {"noise", "malformed", "json"}

\* The fragments among the lines.
FragmentsOf(lines) == SelectSeq(lines, LAMBDA l : l.kind = "json")

\* The position of idx among the indexes of S, in ascending order.
RankIn(S, idx) == Cardinality({ j \in S : j <= idx })

\* C37: when the body ends by a finish fragment, the content of the Turn
\* returned starts with every content delta received up to and including
\* that fragment, and every tool call begun up to it is in the Turn with
\* the arguments received up to it.
C37_NothingLostAtFinish ==
    (ChatReturnedOk /\ response.status = SuccessStatus) =>
        \A f \in 1..Len(response.lines) :
            EndsByFinishAt(response.lines, f) =>
                LET sentLines == FragmentsOf(SubSeq(response.lines, 1, f))
                    S == IndexesOf(AccumulatedLines)
                IN  /\ IsPrefix(LogicalContent(sentLines), ReturnedTurn.content[1])
                    /\ \A idx \in IndexesOf(sentLines) :
                          /\ idx \in S
                          /\ IsPrefix(LogicalArguments(DeltasAt(sentLines, idx)),
                                      ReturnedTurn.tool_calls[1][RankIn(S, idx)].arguments)

\* ------------------------------------------------- get_user_approval ends
\* C38: every call of get_user_approval eventually returns approval,
\* denial or an error, whatever the terminal holds.
C38_ApprovalTerminates == <>(approval_pc = "returned")

\* ------------------------------------------------------ clipping and crashes
\* C39: clip and compact_history return for every observation and every
\* observation_clip, so neither the step's compaction nor its gather loop
\* is ever aborted by a panic.
C39_ClippingNeverAborts == pc # "panicked"
====
